---- MODULE Spec2Model ----
(***************************************************************************)
(* State-machine model of njtool's Downloader, the class with the warning  *)
(* and error counters: one process runs download() over a batch of         *)
(* journals; the cursor files live in the file system and survive the      *)
(* process.  Collaborators that can fail: puppeteer.launch, newPage, the   *)
(* login and logout pages, mkdirp, page.goto, the two page.evaluate calls  *)
(* and the PDF write; the cursor write succeeds and unlink fails only on a *)
(* missing file.                                                           *)
(***************************************************************************)
EXTENDS Integers, Sequences, FiniteSets, TLC

\* ------------------------------------------------------------------ bounds
\* journals of a batch, articles of a batch (all journals together), retries
MaxJournals == 2
MaxArticles == 3
MaxRetry == 2

\* option values exercised: 0 and one positive value each
RetryIntervals == {0, 5}
Sleeps == {0, 10}

VARIABLES
  journals,     \* the batch: journals[j] = number of articles of journal j
  options_,     \* [retry, retryInterval, sleep]
  cursorFile,   \* file system: cursorFile[j] = the file <dir of j>/cursor
  pc,           \* position of the download() coroutine
  browser,      \* "null" | "open" | "closed"
  aborted_, warnCount_, errorCount_,
  status,       \* value download() resolved to (-1 while it has not)
  jdx,          \* position of the for-of loop over journals (1-based)
  cursor,       \* const cursor of downloadJournal_
  i,            \* loop variable of downloadJournal_
  trial,        \* loop variable of downloadArticleWithRetry_
  logger,       \* calls received by the logger collaborator
  art,          \* calls observed during the current downloadArticleWithRetry_
  obs,          \* calls observed during the current process
  since,        \* since[j]: articles navigated to since cursorFile[j] was created
  runs,         \* 1 once the process has been restarted, else 0
  prior,        \* articles processed by the interrupted processes before
  scraper,      \* a Volume or Journal object and its scrape() coroutine
  cli,          \* the njtool download process around the Downloader
  progress      \* a Progress object, its indicator and the file name made of it

inVars == <<journals, options_>>
fsVars == <<cursorFile>>
cntVars == <<warnCount_, errorCount_, logger>>
loopVars == <<jdx, cursor, i, trial>>
vars == <<journals, options_, cursorFile, pc, browser, aborted_,
          warnCount_, errorCount_, status, jdx, cursor, i, trial, logger,
          art, obs, since, runs, prior,
                 scraper, cli, progress>>

\* ------------------------------------------------------- strings and files
Digits == <<"0", "1", "2", "3", "4", "5", "6", "7", "8", "9">>

IsDigit(c) == \E d \in 1..10 : Digits[d] = c

DigitVal(c) == (CHOOSE d \in 1..10 : Digits[d] = c) - 1

\* String(id) for a non-negative integer: its decimal digits
RECURSIVE String(_)
String(n) ==
  IF n < 10 THEN <<Digits[n + 1]>>
  ELSE String(n \div 10) \o <<Digits[(n % 10) + 1]>>

NaN == -1

RECURSIVE Sum(_)
Sum(f) ==
  IF DOMAIN f = {} THEN 0
  ELSE LET n == CHOOSE k \in DOMAIN f : \A m \in DOMAIN f : m <= k
       IN f[n] + Sum([k \in DOMAIN f \ {n} |-> f[k]])

RECURSIVE DigitsValue(_, _)
DigitsValue(s, acc) ==
  IF s = <<>> \/ ~IsDigit(Head(s)) THEN acc
  ELSE DigitsValue(Tail(s), 10 * acc + DigitVal(Head(s)))

\* parseInt(text): the value of the leading decimal digits, NaN without any
ParseInt(s) ==
  IF s = <<>> \/ ~IsDigit(Head(s)) THEN NaN ELSE DigitsValue(s, 0)

\* a < b of JavaScript numbers: false when either side is NaN
Lt(a, b) == a # NaN /\ b # NaN /\ a < b

NoFile == [exists |-> FALSE, text |-> <<>>]

File(t) == [exists |-> TRUE, text |-> t]

\* ------------------------------------------------------------ pure helpers
JIdx == 1..Len(journals)

ExitStatus(errors) == IF errors > 0 THEN 1 ELSE 0

MaxTrial(retry) == 1 + retry

\* a readCursor_ that never looks at the file
readCursor_Zero(file) == 0

\* a readCursor_ that resumes after the recorded article
readCursor_Next(file) == IF ~file.exists THEN 0 ELSE ParseInt(file.text) + 1

readCursor_(file) == IF ~file.exists THEN 0 ELSE ParseInt(file.text)

writeCursor_(id) == File(String(id))

\* dataUrl.match(/^data:(.+);base64,(.+)$/) !== null
parseDataUrl_Matches(dataUrl) ==
  /\ dataUrl.scheme
  /\ dataUrl.mime >= 1
  /\ dataUrl.base64
  /\ dataUrl.payload >= 1

DataUrls == [scheme : BOOLEAN, mime : 0..1, base64 : BOOLEAN, payload : 0..1]

\* art: what the current downloadArticleWithRetry_ call has done so far
\* (errors0: errorCount_ when it was called; abortTrial: the trial during
\* which abort() was first called, -1 when it was not called during the call;
\* throttleTime: the durations passed to the throttle sleep, added up)
NewArt(errors0) ==
  [trials |-> 0, fails |-> 0, warns |-> 0, errors |-> 0, retrySleeps |-> 0,
   throttles |-> 0, saves |-> 0, nolinks |-> 0, errors0 |-> errors0,
   abortTrial |-> -1, throttleTime |-> 0]

\* obs: what the current process has done so far
\*   navigated  <<j, i>>: page.goto(article.url) was called for article i of j
\*   first[j]   index of the first article of j navigated to (-1: none)
\*   written    <<j, v>>: writeCursor_(dir of j, v) was called
\*   entered    journals downloadJournal_ was called for
\*   made       journals whose directory mkdirp.sync has created
\*   started    journals whose cursor was read; startFile[j]: the file then
\*   loopEnded  journals whose per-article loop ended by its condition
\*   finished   journals whose downloadJournal_ returned
\*   failed     <<j, i>>: article i of j ended with the 'Failed' error
\*   thrown     message of the exception caught by downloadJournals_
\*   logoutErrors0  errors logged before logout_ threw, -1 while it has not
\*   calls      download() calls made on this Downloader, the current one
\*              included; callErrors0: errors logged before the current one
NewObs ==
  [navigated |-> {}, first |-> [j \in JIdx |-> -1], written |-> {},
   entered |-> {}, made |-> {}, started |-> {},
   startFile |-> [j \in JIdx |-> NoFile],
   loopEnded |-> {}, finished |-> {},
   failed |-> {}, thrown |-> "none", logins |-> 0, loggedIn |-> FALSE,
   logouts |-> 0, logoutErrors0 |-> -1, closes |-> 0,
   calls |-> 1, callErrors0 |-> 0]

\* ------------------------------------------------------------------ logging
info_ == UNCHANGED cntVars

\* a warn_ that counts the warning as an error
warn_CountsError ==
  /\ logger' = [logger EXCEPT !.warn = @ + 1]
  /\ warnCount_' = warnCount_
  /\ errorCount_' = errorCount_ + 1

warn_ ==
  /\ logger' = [logger EXCEPT !.warn = @ + 1]
  /\ warnCount_' = warnCount_ + 1
  /\ errorCount_' = errorCount_

\* an error_ that logs without counting
error_Uncounted ==
  /\ logger' = [logger EXCEPT !.error = @ + 1]
  /\ UNCHANGED <<warnCount_, errorCount_>>

error_ ==
  /\ logger' = [logger EXCEPT !.error = @ + 1]
  /\ errorCount_' = errorCount_ + 1
  /\ warnCount_' = warnCount_

\* ----------------------------------------------------------------- scrapers
\* a Volume or Journal object after its constructor, no scrape() called yet
\*   content, error  this.content / this.error is set (truthy)
\*   pc, browser     position and local variable of the scrape() coroutine
\*   calls           scrape() calls made on the object
\*   closes, failed  of the current call: browser.close() calls, failing step
\*   outcome         of the current call: "none" | "resolved" | "rejected"
\*   returned        property names of the metadata the call resolved to
\*   arg             the id given to the constructor
\*   name, volume, issue  the fields the constructor sets
\*   id              the text the id getter returned
NewScraper(kind) ==
  [kind |-> kind, content |-> FALSE, error |-> FALSE, pc |-> "idle",
   browser |-> "null", calls |-> 0, closes |-> 0, failed |-> "none",
   outcome |-> "none", returned |-> {}, arg |-> <<>>, name |-> <<>>,
   volume |-> <<>>, issue |-> <<>>, id |-> <<>>]

\* the download command creates no Volume or Journal
NoScraper == NewScraper("none")

\* progress: new Progress(count, total, trial, maxTrial), with the texts
\* made of it: indicator (the getter) and pdfFile (downloadArticle_), each
\* empty until it is computed
NewProgress(count, total, trial1, max) ==
  [count |-> count, total |-> total, trial |-> trial1, maxTrial |-> max,
   indicator |-> <<>>, pdfFile |-> <<>>]

\* the model of download() keeps no Progress object
NoProgress == NewProgress(0, 0, 0, 0)

\* cli: the process of the njtool download command
\*   typed        --retry was given, so options.retry is the text typed
\*   abort_count  the counter of the SIGINT handler
\*   exit         the exit status of the process, -1 while it runs
NewCli(typed) == [typed |-> typed, abort_count |-> 0, exit |-> -1]

\* a Downloader constructed by a caller that passes numbers as options
NoCli == NewCli(FALSE)

\* -------------------------------------------------------------------- Init
Batches ==
  {b \in UNION {[1..n -> 0..MaxArticles] : n \in 1..MaxJournals} :
     Sum(b) <= MaxArticles}

Init ==
  /\ journals \in Batches
  /\ options_ \in [retry : 0..MaxRetry, retryInterval : RetryIntervals,
                   sleep : Sleeps]
  /\ cursorFile = [j \in JIdx |-> NoFile]
  /\ pc = "start"
  /\ browser = "null"
  /\ aborted_ = FALSE
  /\ warnCount_ = 0
  /\ errorCount_ = 0
  /\ status = -1
  /\ jdx = 1
  /\ cursor = 0
  /\ i = 0
  /\ trial = 0
  /\ logger = [warn |-> 0, error |-> 0]
  /\ art = NewArt(0)
  /\ obs = NewObs
  /\ since = [j \in JIdx |-> {}]
  /\ runs = 0
  /\ prior = {}
  /\ scraper = NoScraper
  /\ cli = NoCli
  /\ progress = NoProgress

\* the variables of the Downloader and of its run
dlVarsNoCli ==
  <<journals, options_, cursorFile, pc, browser, aborted_, warnCount_,
    errorCount_, status, jdx, cursor, i, trial, logger, art, obs, since,
    runs, prior>>

\* const maxTrial = 1 + this.options_.retry, as a number: a retry count that
\* is a text makes + a concatenation, and `trial < maxTrial` then converts
\* the text to the number it spells
maxTrial ==
  IF cli.typed THEN ParseInt(String(1) \o String(options_.retry))
               ELSE MaxTrial(options_.retry)

\* --------------------------------------------------------------- download()
\* positions inside a trial of the current article
TrialPcs == {"trialCond", "goto", "findPdf", "fetch", "save", "catch",
             "retrySleep"}

AwaitPcs == {"launch", "newPage", "login", "goto", "findPdf", "fetch",
             "retrySleep", "throttle", "logout", "close"}

\* the awaits inside downloadArticleWithRetry_
ArticleAwaitPcs == {"goto", "findPdf", "fetch", "retrySleep", "throttle"}

\* an abort() that flips the flag instead of setting it
Abort_Toggles ==
  /\ pc \in AwaitPcs \cup {"start"}
  /\ aborted_' = ~aborted_
  /\ art' = IF pc \in ArticleAwaitPcs /\ ~aborted_
              THEN [art EXCEPT !.abortTrial = trial]
              ELSE art
  /\ UNCHANGED <<inVars, fsVars, cntVars, loopVars, pc, browser, status,
                 obs, since, runs, prior,
                 scraper, cli, progress>>

\* abort(): sets the flag; a signal handler runs only while download() is
\* suspended at an await (or before download() is called)
Abort ==
  /\ pc \in AwaitPcs \cup {"start"}
  /\ aborted_' = TRUE
  /\ art' = IF pc \in ArticleAwaitPcs /\ ~aborted_
              THEN [art EXCEPT !.abortTrial = trial]
              ELSE art
  /\ UNCHANGED <<inVars, fsVars, cntVars, loopVars, pc, browser, status,
                 obs, since, runs, prior,
                 scraper, cli, progress>>

\* download() is called and suspends on puppeteer.launch(opt)
Download ==
  /\ pc = "start"
  /\ pc' = "launch"
  /\ info_
  /\ UNCHANGED <<inVars, fsVars, loopVars, browser, aborted_, status, art,
                 obs, since, runs, prior,
                 scraper, cli, progress>>

\* a catch that returns at once, the browser closed on the success path only
DownloadCatch_Return ==
  /\ error_
  /\ pc' = "return"

\* catch (e) { this.error_(e.message); } of download()
DownloadCatch ==
  /\ error_
  /\ pc' = "finally"

Launch ==
  /\ pc = "launch"
  /\ \E ok \in BOOLEAN :
       IF ok THEN /\ browser' = "open"
                  /\ pc' = "newPage"
                  /\ info_
             ELSE /\ browser' = browser
                  /\ DownloadCatch
  /\ UNCHANGED <<inVars, fsVars, loopVars, aborted_, status, art, obs,
                 since, runs, prior,
                 scraper, cli, progress>>

NewPage ==
  /\ pc = "newPage"
  /\ \E ok \in BOOLEAN :
       IF ok THEN /\ pc' = "login"
                  /\ info_
             ELSE DownloadCatch
  /\ UNCHANGED <<inVars, fsVars, loopVars, browser, aborted_, status, art,
                 obs, since, runs, prior,
                 scraper, cli, progress>>

\* a login_ without the host name test: a refused login goes unnoticed
Login_NoHostTest ==
  /\ pc = "login"
  /\ \E r \in {"ok", "throws", "refused"} :
       CASE r = "ok" -> /\ pc' = "journals"
                        /\ obs' = [obs EXCEPT !.logins = @ + 1,
                                              !.loggedIn = TRUE]
                        /\ info_
         [] r = "refused" -> /\ pc' = "journals"
                             /\ obs' = [obs EXCEPT !.logins = @ + 1]
                             /\ info_
         [] OTHER -> /\ DownloadCatch
                     /\ obs' = [obs EXCEPT !.logins = @ + 1]
  /\ UNCHANGED <<inVars, fsVars, loopVars, browser, aborted_, status, art,
                 since, runs, prior,
                 scraper, cli, progress>>

\* login_(page): a collaborator call throws, the page stays on
\* idp.nature.com (login refused), or the login succeeds
Login ==
  /\ pc = "login"
  /\ \E r \in {"ok", "throws", "refused"} :
       IF r = "ok" THEN /\ pc' = "journals"
                        /\ obs' = [obs EXCEPT !.logins = @ + 1,
                                              !.loggedIn = TRUE]
                        /\ info_
                   ELSE /\ DownloadCatch
                        /\ obs' = [obs EXCEPT !.logins = @ + 1]
  /\ UNCHANGED <<inVars, fsVars, loopVars, browser, aborted_, status, art,
                 since, runs, prior,
                 scraper, cli, progress>>

\* a catch of downloadJournals_ that swallows the exception
JournalsCatch_Swallows(msg) ==
  /\ info_
  /\ obs' = [obs EXCEPT !.thrown = msg]
  /\ pc' = "logout"

\* a journal exception that is not caught by downloadJournals_ and reaches
\* the catch of download()
JournalsCatch_Propagates(msg) ==
  /\ error_
  /\ obs' = [obs EXCEPT !.thrown = msg]
  /\ pc' = "finally"

\* catch (e) { this.error_(e.message); } of downloadJournals_()
JournalsCatch(msg) ==
  /\ error_
  /\ obs' = [obs EXCEPT !.thrown = msg]
  /\ pc' = "logout"

\* for (let journal of journals)
Journals ==
  /\ pc = "journals"
  /\ IF jdx <= Len(journals)
       THEN /\ pc' = "mkdirp"
            /\ obs' = [obs EXCEPT !.entered = @ \cup {jdx}]
       ELSE /\ pc' = "logout"
            /\ obs' = obs
  /\ info_
  /\ UNCHANGED <<inVars, fsVars, loopVars, browser, aborted_, status, art,
                 since, runs, prior,
                 scraper, cli, progress>>

\* a downloadJournal_ that goes on to read the cursor when mkdirp.sync threw
Mkdirp_FailureIgnored ==
  /\ pc = "mkdirp"
  /\ \E ok \in BOOLEAN :
       /\ pc' = "readCursor"
       /\ info_
       /\ obs' = IF ok THEN [obs EXCEPT !.made = @ \cup {jdx}] ELSE obs
  /\ UNCHANGED <<inVars, fsVars, loopVars, browser, aborted_, status, art,
                 since, runs, prior,
                 scraper, cli, progress>>

\* mkdirp.sync(dir); an exception leaves downloadJournal_
Mkdirp ==
  /\ pc = "mkdirp"
  /\ \E ok \in BOOLEAN :
       IF ok THEN /\ pc' = "readCursor"
                  /\ info_
                  /\ obs' = [obs EXCEPT !.made = @ \cup {jdx}]
             ELSE JournalsCatch("mkdirp")
  /\ UNCHANGED <<inVars, fsVars, loopVars, browser, aborted_, status, art,
                 since, runs, prior,
                 scraper, cli, progress>>

ReadCursor ==
  /\ pc = "readCursor"
  /\ cursor' = readCursor_(cursorFile[jdx])
  /\ i' = cursor'
  /\ obs' = [obs EXCEPT !.started = @ \cup {jdx},
                        !.startFile[jdx] = cursorFile[jdx]]
  /\ pc' = "forCond"
  /\ info_
  /\ UNCHANGED <<inVars, fsVars, jdx, trial, browser, aborted_, status, art,
                 since, runs, prior,
                 scraper, cli, progress>>

\* i < total
ForCond ==
  /\ pc = "forCond"
  /\ IF Lt(i, journals[jdx])
       THEN /\ pc' = "writeCursor"
            /\ obs' = obs
       ELSE /\ pc' = "removeCursor"
            /\ obs' = [obs EXCEPT !.loopEnded = @ \cup {jdx}]
  /\ info_
  /\ UNCHANGED <<inVars, fsVars, loopVars, browser, aborted_, status, art,
                 since, runs, prior,
                 scraper, cli, progress>>

\* the abort flag checked before the cursor is written
WriteCursor_AfterAbortCheck ==
  /\ pc = "writeCursor"
  /\ IF aborted_
       THEN /\ JournalsCatch("Aborted")
            /\ UNCHANGED <<cursorFile, since>>
       ELSE /\ cursorFile' = [cursorFile EXCEPT ![jdx] = writeCursor_(i)]
            /\ since' = [since EXCEPT
                 ![jdx] = IF cursorFile[jdx].exists THEN @ ELSE {}]
            /\ obs' = [obs EXCEPT !.written = @ \cup {<<jdx, i>>}]
            /\ pc' = "checkAbort"
            /\ info_
  /\ UNCHANGED <<inVars, loopVars, browser, aborted_, status, art, runs, prior,
                 scraper, cli, progress>>

\* the cursor advanced to the next article before the attempt
WriteCursor_Advanced ==
  /\ pc = "writeCursor"
  /\ cursorFile' = [cursorFile EXCEPT ![jdx] = writeCursor_(i + 1)]
  /\ since' = [since EXCEPT ![jdx] = IF cursorFile[jdx].exists THEN @ ELSE {}]
  /\ obs' = [obs EXCEPT !.written = @ \cup {<<jdx, i + 1>>}]
  /\ pc' = "checkAbort"
  /\ info_
  /\ UNCHANGED <<inVars, loopVars, browser, aborted_, status, art, runs, prior,
                 scraper, cli, progress>>

WriteCursor ==
  /\ pc = "writeCursor"
  /\ cursorFile' = [cursorFile EXCEPT ![jdx] = writeCursor_(i)]
  /\ since' = [since EXCEPT ![jdx] = IF cursorFile[jdx].exists THEN @ ELSE {}]
  /\ obs' = [obs EXCEPT !.written = @ \cup {<<jdx, i>>}]
  /\ pc' = "checkAbort"
  /\ info_
  /\ UNCHANGED <<inVars, loopVars, browser, aborted_, status, art, runs, prior,
                 scraper, cli, progress>>

\* an abort that leaves the loop with break instead of throwing
CheckAbort_Break ==
  /\ pc = "checkAbort"
  /\ IF aborted_
       THEN /\ pc' = "removeCursor"
            /\ UNCHANGED <<trial, art>>
       ELSE /\ trial' = 0
            /\ art' = NewArt(errorCount_)
            /\ pc' = "trialCond"
  /\ info_
  /\ UNCHANGED <<inVars, fsVars, jdx, cursor, i, browser, aborted_, status,
                 obs, since, runs, prior,
                 scraper, cli, progress>>

\* if (this.aborted_) throw new Error('Aborted'); else
\* downloadArticleWithRetry_ starts with trial = 0
CheckAbort ==
  /\ pc = "checkAbort"
  /\ IF aborted_
       THEN /\ JournalsCatch("Aborted")
            /\ UNCHANGED <<trial, art>>
       ELSE /\ trial' = 0
            /\ art' = NewArt(errorCount_)
            /\ pc' = "trialCond"
            /\ info_
            /\ obs' = obs
  /\ UNCHANGED <<inVars, fsVars, jdx, cursor, i, browser, aborted_, status,
                 since, runs, prior,
                 scraper, cli, progress>>

\* a retry loop that polls the abort flag before every trial
TrialCond_PollsAbort ==
  /\ pc = "trialCond"
  /\ IF trial < MaxTrial(options_.retry) /\ ~aborted_
       THEN /\ pc' = "goto"
            /\ art' = [art EXCEPT !.trials = @ + 1]
            /\ obs' = [obs EXCEPT
                 !.navigated = @ \cup {<<jdx, i>>},
                 !.first[jdx] = IF @ = -1 THEN i ELSE @]
            /\ since' = [since EXCEPT ![jdx] = @ \cup {i}]
       ELSE /\ pc' = "forInc"
            /\ UNCHANGED <<art, obs, since>>
  /\ info_
  /\ UNCHANGED <<inVars, fsVars, loopVars, browser, aborted_, status, runs,
                 prior, scraper, cli, progress>>

\* trial < maxTrial: downloadArticle_ is called and suspends on page.goto
TrialCond ==
  /\ pc = "trialCond"
  /\ IF trial < maxTrial
       THEN /\ pc' = "goto"
            /\ art' = [art EXCEPT !.trials = @ + 1]
            /\ obs' = [obs EXCEPT
                 !.navigated = @ \cup {<<jdx, i>>},
                 !.first[jdx] = IF @ = -1 THEN i ELSE @]
            /\ since' = [since EXCEPT ![jdx] = @ \cup {i}]
       ELSE /\ pc' = "forInc"
            /\ UNCHANGED <<art, obs, since>>
  /\ info_
  /\ UNCHANGED <<inVars, fsVars, loopVars, browser, aborted_, status, runs,
                 prior, scraper, cli, progress>>

\* an exception of downloadArticle_ reaches the catch of the retry loop
ArticleThrows ==
  /\ pc' = "catch"
  /\ art' = [art EXCEPT !.fails = @ + 1]

Goto ==
  /\ pc = "goto"
  /\ \E ok \in BOOLEAN :
       IF ok THEN pc' = "findPdf" /\ art' = art
             ELSE ArticleThrows
  /\ info_
  /\ UNCHANGED <<inVars, fsVars, loopVars, browser, aborted_, status, obs,
                 since, runs, prior,
                 scraper, cli, progress>>

\* a missing link treated as a failure of the trial
FindPdfUrl_Retried ==
  /\ pc = "findPdf"
  /\ \E r \in {"url", "null", "throws"} :
       CASE r = "url" -> pc' = "fetch" /\ art' = art /\ info_
         [] r = "null" -> /\ warn_
                          /\ art' = [art EXCEPT !.warns = @ + 1,
                                                !.nolinks = @ + 1,
                                                !.fails = @ + 1]
                          /\ pc' = "catch"
         [] OTHER -> ArticleThrows /\ info_
  /\ UNCHANGED <<inVars, fsVars, loopVars, browser, aborted_, status, obs,
                 since, runs, prior,
                 scraper, cli, progress>>

\* findPdfUrl_: a url, null (warn and return; the retry loop breaks), or throws
FindPdfUrl ==
  /\ pc = "findPdf"
  /\ \E r \in {"url", "null", "throws"} :
       CASE r = "url" -> pc' = "fetch" /\ art' = art /\ info_
         [] r = "null" -> /\ warn_
                          /\ art' = [art EXCEPT !.warns = @ + 1,
                                                !.nolinks = @ + 1]
                          /\ pc' = "forInc"
         [] OTHER -> ArticleThrows /\ info_
  /\ UNCHANGED <<inVars, fsVars, loopVars, browser, aborted_, status, obs,
                 since, runs, prior,
                 scraper, cli, progress>>

\* fetch_: page.evaluate rejects, or resolves to a data URL that
\* parseDataUrl_ accepts or refuses
Fetch ==
  /\ pc = "fetch"
  /\ \/ ArticleThrows
     \/ \E dataUrl \in DataUrls :
          IF parseDataUrl_Matches(dataUrl)
            THEN pc' = "save" /\ art' = art
            ELSE ArticleThrows
  /\ info_
  /\ UNCHANGED <<inVars, fsVars, loopVars, browser, aborted_, status, obs,
                 since, runs, prior,
                 scraper, cli, progress>>

\* a retry loop without the break after a successful trial
Save_NoBreak ==
  /\ pc = "save"
  /\ \E ok \in BOOLEAN :
       IF ok
         THEN /\ pc' = "trialCond"
              /\ trial' = trial + 1
              /\ art' = [art EXCEPT !.saves = @ + 1]
         ELSE /\ ArticleThrows
              /\ trial' = trial
  /\ info_
  /\ UNCHANGED <<inVars, fsVars, jdx, cursor, i, browser, aborted_, status,
                 obs, since, runs, prior,
                 scraper, cli, progress>>

\* a throttle sleep taken whatever the sleep option is
Save_AlwaysThrottles ==
  /\ pc = "save"
  /\ \E ok \in BOOLEAN :
       IF ok
         THEN /\ pc' = "throttle"
              /\ art' = [art EXCEPT !.saves = @ + 1,
                                    !.throttles = @ + 1,
                                    !.throttleTime = @ + options_.sleep]
         ELSE ArticleThrows
  /\ info_
  /\ UNCHANGED <<inVars, fsVars, loopVars, browser, aborted_, status,
                 obs, since, runs, prior,
                 scraper, cli, progress>>

\* fs.writeFileSync(pdfPath, buf), then the throttle sleep if sleep > 0
Save ==
  /\ pc = "save"
  /\ \E ok \in BOOLEAN :
       IF ok
         THEN IF options_.sleep > 0
                THEN /\ pc' = "throttle"
                     /\ art' = [art EXCEPT !.saves = @ + 1,
                                           !.throttles = @ + 1,
                                           !.throttleTime = @ + options_.sleep]
                ELSE /\ pc' = "forInc"
                     /\ art' = [art EXCEPT !.saves = @ + 1]
         ELSE ArticleThrows
  /\ info_
  /\ UNCHANGED <<inVars, fsVars, loopVars, browser, aborted_, status,
                 obs, since, runs, prior,
                 scraper, cli, progress>>

Throttle ==
  /\ pc = "throttle"
  /\ pc' = "forInc"
  /\ info_
  /\ UNCHANGED <<inVars, fsVars, loopVars, browser, aborted_, status, art,
                 obs, since, runs, prior,
                 scraper, cli, progress>>

\* a catch that compares with trial <= retry: the last trial warns too
Catch_OffByOne ==
  /\ pc = "catch"
  /\ IF trial <= options_.retry
       THEN /\ warn_
            /\ IF options_.retryInterval > 0
                 THEN /\ art' = [art EXCEPT !.warns = @ + 1,
                                            !.retrySleeps = @ + 1]
                      /\ pc' = "retrySleep"
                      /\ trial' = trial
                 ELSE /\ art' = [art EXCEPT !.warns = @ + 1]
                      /\ pc' = "trialCond"
                      /\ trial' = trial + 1
            /\ obs' = obs
       ELSE /\ error_
            /\ art' = [art EXCEPT !.errors = @ + 1]
            /\ obs' = [obs EXCEPT !.failed = @ \cup {<<jdx, i>>}]
            /\ pc' = "trialCond"
            /\ trial' = trial + 1
  /\ UNCHANGED <<inVars, fsVars, jdx, cursor, i, browser, aborted_, status,
                 since, runs, prior,
                 scraper, cli, progress>>

\* a catch whose final error leaves the journal loop
Catch_Escalates ==
  /\ pc = "catch"
  /\ IF trial < options_.retry
       THEN /\ warn_
            /\ IF options_.retryInterval > 0
                 THEN /\ art' = [art EXCEPT !.warns = @ + 1,
                                            !.retrySleeps = @ + 1]
                      /\ pc' = "retrySleep"
                      /\ trial' = trial
                 ELSE /\ art' = [art EXCEPT !.warns = @ + 1]
                      /\ pc' = "trialCond"
                      /\ trial' = trial + 1
            /\ obs' = obs
       ELSE /\ error_
            /\ art' = [art EXCEPT !.errors = @ + 1]
            /\ obs' = [obs EXCEPT !.failed = @ \cup {<<jdx, i>>}]
            /\ pc' = "logout"
            /\ trial' = trial + 1
  /\ UNCHANGED <<inVars, fsVars, jdx, cursor, i, browser, aborted_, status,
                 since, runs, prior,
                 scraper, cli, progress>>

\* a catch that increments trial itself, on top of the loop's ++trial
Catch_DoubleIncrement ==
  /\ pc = "catch"
  /\ IF trial < options_.retry
       THEN /\ warn_
            /\ IF options_.retryInterval > 0
                 THEN /\ art' = [art EXCEPT !.warns = @ + 1,
                                            !.retrySleeps = @ + 1]
                      /\ pc' = "retrySleep"
                      /\ trial' = trial + 1
                 ELSE /\ art' = [art EXCEPT !.warns = @ + 1]
                      /\ pc' = "trialCond"
                      /\ trial' = trial + 2
            /\ obs' = obs
       ELSE /\ error_
            /\ art' = [art EXCEPT !.errors = @ + 1]
            /\ obs' = [obs EXCEPT !.failed = @ \cup {<<jdx, i>>}]
            /\ pc' = "trialCond"
            /\ trial' = trial + 2
  /\ UNCHANGED <<inVars, fsVars, jdx, cursor, i, browser, aborted_, status,
                 since, runs, prior,
                 scraper, cli, progress>>

\* catch (e) of downloadArticleWithRetry_
Catch ==
  /\ pc = "catch"
  /\ IF trial < options_.retry
       THEN /\ warn_
            /\ IF options_.retryInterval > 0
                 THEN /\ art' = [art EXCEPT !.warns = @ + 1,
                                            !.retrySleeps = @ + 1]
                      /\ pc' = "retrySleep"
                      /\ trial' = trial
                 ELSE /\ art' = [art EXCEPT !.warns = @ + 1]
                      /\ pc' = "trialCond"
                      /\ trial' = trial + 1
            /\ obs' = obs
       ELSE /\ error_
            /\ art' = [art EXCEPT !.errors = @ + 1]
            /\ obs' = [obs EXCEPT !.failed = @ \cup {<<jdx, i>>}]
            /\ pc' = "trialCond"
            /\ trial' = trial + 1
  /\ UNCHANGED <<inVars, fsVars, jdx, cursor, i, browser, aborted_, status,
                 since, runs, prior,
                 scraper, cli, progress>>

\* a retry that does not count the trial it follows
RetrySleep_SameTrial ==
  /\ pc = "retrySleep"
  /\ trial' = trial
  /\ pc' = "trialCond"
  /\ info_
  /\ UNCHANGED <<inVars, fsVars, jdx, cursor, i, browser, aborted_, status,
                 art, obs, since, runs, prior,
                 scraper, cli, progress>>

RetrySleep ==
  /\ pc = "retrySleep"
  /\ trial' = trial + 1
  /\ pc' = "trialCond"
  /\ info_
  /\ UNCHANGED <<inVars, fsVars, jdx, cursor, i, browser, aborted_, status,
                 art, obs, since, runs, prior,
                 scraper, cli, progress>>

\* ++i
ForInc ==
  /\ pc = "forInc"
  /\ i' = i + 1
  /\ pc' = "forCond"
  /\ info_
  /\ UNCHANGED <<inVars, fsVars, jdx, cursor, trial, browser, aborted_,
                 status, art, obs, since, runs, prior,
                 scraper, cli, progress>>

\* a removeCursor_ call skipped when an article of the journal failed
RemoveCursor_UnlessFailed ==
  /\ pc = "removeCursor"
  /\ IF \E f \in obs.failed : f[1] = jdx
       THEN /\ cursorFile' = cursorFile
            /\ obs' = [obs EXCEPT !.finished = @ \cup {jdx}]
            /\ jdx' = jdx + 1
            /\ pc' = "journals"
            /\ info_
       ELSE IF cursorFile[jdx].exists
         THEN /\ cursorFile' = [cursorFile EXCEPT ![jdx] = NoFile]
              /\ obs' = [obs EXCEPT !.finished = @ \cup {jdx}]
              /\ jdx' = jdx + 1
              /\ pc' = "journals"
              /\ info_
         ELSE /\ JournalsCatch("ENOENT")
              /\ UNCHANGED <<cursorFile, jdx>>
  /\ UNCHANGED <<inVars, cursor, i, trial, browser, aborted_,
                 status, art, since, runs, prior,
                 scraper, cli, progress>>

\* removeCursor_: fs.unlinkSync throws ENOENT when the file does not exist
RemoveCursor ==
  /\ pc = "removeCursor"
  /\ IF cursorFile[jdx].exists
       THEN /\ cursorFile' = [cursorFile EXCEPT ![jdx] = NoFile]
            /\ obs' = [obs EXCEPT !.finished = @ \cup {jdx}]
            /\ jdx' = jdx + 1
            /\ pc' = "journals"
            /\ info_
       ELSE /\ JournalsCatch("ENOENT")
            /\ UNCHANGED <<cursorFile, jdx>>
  /\ UNCHANGED <<inVars, cursor, i, trial, browser, aborted_,
                 status, art, since, runs, prior,
                 scraper, cli, progress>>

\* a logout_ whose failure is swallowed without being logged
Logout_Unlogged ==
  /\ pc = "logout"
  /\ \E ok \in BOOLEAN :
       /\ obs' = [obs EXCEPT !.logouts = @ + 1,
                             !.logoutErrors0 =
                                IF ok THEN @ ELSE logger.error]
       /\ pc' = "finally"
       /\ info_
  /\ UNCHANGED <<inVars, fsVars, loopVars, browser, aborted_, status, art,
                 since, runs, prior,
                 scraper, cli, progress>>

\* await this.logout_(page); inside the try of download()
Logout ==
  /\ pc = "logout"
  /\ \E ok \in BOOLEAN :
       /\ obs' = [obs EXCEPT !.logouts = @ + 1,
                             !.logoutErrors0 =
                                IF ok THEN @ ELSE logger.error]
       /\ IF ok THEN pc' = "finally" /\ info_
                ELSE DownloadCatch
  /\ UNCHANGED <<inVars, fsVars, loopVars, browser, aborted_, status, art,
                 since, runs, prior,
                 scraper, cli, progress>>

\* a teardown that closes the browser without testing it
Finally_Unguarded ==
  /\ pc = "finally"
  /\ pc' = "close"
  /\ info_
  /\ UNCHANGED <<inVars, fsVars, loopVars, browser, aborted_, status, art,
                 obs, since, runs, prior,
                 scraper, cli, progress>>

\* if (browser) { await browser.close(); }
Finally ==
  /\ pc = "finally"
  /\ pc' = IF browser = "open" THEN "close" ELSE "return"
  /\ info_
  /\ UNCHANGED <<inVars, fsVars, loopVars, browser, aborted_, status, art,
                 obs, since, runs, prior,
                 scraper, cli, progress>>

Close ==
  /\ pc = "close"
  /\ browser' = "closed"
  /\ obs' = [obs EXCEPT !.closes = @ + 1]
  /\ pc' = "return"
  /\ info_
  /\ UNCHANGED <<inVars, fsVars, loopVars, aborted_, status, art, since,
                 runs, prior,
                 scraper, cli, progress>>

\* return this.errorCount_ > 0 ? 1 : 0;
Return ==
  /\ pc = "return"
  /\ status' = ExitStatus(errorCount_)
  /\ pc' = "done"
  /\ info_
  /\ UNCHANGED <<inVars, fsVars, loopVars, browser, aborted_, art, obs,
                 since, runs, prior,
                 scraper, cli, progress>>

\* articles of this process whose downloadArticleWithRetry_ call has returned
Processed ==
  {a \in obs.navigated : ~(a = <<jdx, i>> /\ pc \in TrialPcs \cup {"throttle"})}

\* download() has returned after downloadJournal_ returned for every journal
BatchCompleted == pc = "done" /\ obs.finished = JIdx

\* The process ends (exit after download() returned, or a kill at any step)
\* and the command is started again with the same input: a new Downloader,
\* the same file system. prior collects what the processes interrupted since
\* the last completed batch have processed.
Restart ==
  /\ pc # "start"
  /\ runs' = 1
  /\ pc' = "start"
  /\ browser' = "null"
  /\ aborted_' = FALSE
  /\ warnCount_' = 0
  /\ errorCount_' = 0
  /\ status' = -1
  /\ jdx' = 1
  /\ cursor' = 0
  /\ i' = 0
  /\ trial' = 0
  /\ logger' = [warn |-> 0, error |-> 0]
  /\ art' = NewArt(0)
  /\ obs' = NewObs
  /\ prior' = IF BatchCompleted THEN {} ELSE prior \cup Processed
  /\ UNCHANGED <<inVars, fsVars, since, scraper, cli, progress>>

Next ==
  \/ Abort
  \/ Download
  \/ Launch
  \/ NewPage
  \/ Login
  \/ Journals
  \/ Mkdirp
  \/ ReadCursor
  \/ ForCond
  \/ WriteCursor
  \/ CheckAbort
  \/ TrialCond
  \/ Goto
  \/ FindPdfUrl
  \/ Fetch
  \/ Save
  \/ Throttle
  \/ Catch
  \/ RetrySleep
  \/ ForInc
  \/ RemoveCursor
  \/ Logout
  \/ Finally
  \/ Close
  \/ Return

Spec == Init /\ [][Next]_vars

\* the state of a new Downloader, before download() is called
InitProcess ==
  /\ pc = "start"
  /\ browser = "null"
  /\ aborted_ = FALSE
  /\ warnCount_ = 0
  /\ errorCount_ = 0
  /\ status = -1
  /\ jdx = 1
  /\ cursor = 0
  /\ i = 0
  /\ trial = 0
  /\ logger = [warn |-> 0, error |-> 0]
  /\ art = NewArt(0)
  /\ obs = NewObs
  /\ since = [j \in JIdx |-> {}]
  /\ runs = 0
  /\ prior = {}

\* the retry count of the test suite's options
ScenarioRetry == 4

\* one journal of one article, downloaded with retry = 4 into a fresh directory
InitScenario ==
  /\ journals = <<1>>
  /\ options_ \in [retry : {ScenarioRetry}, retryInterval : RetryIntervals,
                   sleep : Sleeps]
  /\ cursorFile = [j \in JIdx |-> NoFile]
  /\ InitProcess
  /\ scraper = NoScraper
  /\ cli = NoCli
  /\ progress = NoProgress

SpecScenario == InitScenario /\ [][Next]_vars

\* cursor files found in the output directory when the command starts: none,
\* one left by an earlier run, or one whose content is not a decimal number
\* (empty, no digit, digits followed by something else)
CursorFiles ==
  {NoFile, File(<<"1">>), File(<<>>), File(<<"x">>), File(<<"1", "x">>)}

\* the command started over an output directory with such cursor files
InitCorrupt ==
  /\ journals \in Batches
  /\ options_ = [retry |-> 1, retryInterval |-> 5, sleep |-> 10]
  /\ cursorFile \in [JIdx -> CursorFiles]
  /\ InitProcess
  /\ scraper = NoScraper
  /\ cli = NoCli
  /\ progress = NoProgress

SpecCorrupt == InitCorrupt /\ [][Next]_vars

\* the command run again and again over one output directory
RestartOptions == {[retry |-> 1, retryInterval |-> 5, sleep |-> 10],
                   [retry |-> 0, retryInterval |-> 0, sleep |-> 0]}

InitRestart == Init /\ options_ \in RestartOptions

NextRestart == Next \/ Restart

SpecRestart == InitRestart /\ [][NextRestart]_vars

\* ------------------------------------------------- download() under fairness
\* the steps of download() itself: every step but the abort() of the caller
Advance ==
  \/ Download \/ Launch \/ NewPage \/ Login \/ Journals \/ Mkdirp
  \/ ReadCursor \/ ForCond \/ WriteCursor \/ CheckAbort \/ TrialCond
  \/ Goto \/ FindPdfUrl \/ Fetch \/ Save \/ Throttle \/ Catch
  \/ RetrySleep \/ ForInc \/ RemoveCursor \/ Logout \/ Finally \/ Close
  \/ Return

\* every awaited collaborator call returns or throws, and the continuation
\* of download() is then run
InitLive == Init /\ Sum(journals) < MaxArticles

SpecLive == InitLive /\ [][Next]_vars /\ WF_vars(Advance)

\* ------------------------------------------------ the njtool download command
\* the default of --retry, a number
DefaultRetry == 4

\* a handler that gives up at the first signal
Sigint_ExitsAtOnce ==
  /\ cli.exit = -1
  /\ pc \in AwaitPcs
  /\ cli' = [cli EXCEPT !.exit = 1]
  /\ UNCHANGED <<aborted_, art>>
  /\ UNCHANGED <<inVars, fsVars, cntVars, loopVars, pc, browser, status,
                 obs, since, runs, prior, scraper, progress>>

\* SIGINT handler: the fourth signal is process.exit(1), each earlier one
\* calls downloader.abort() and counts
Sigint ==
  /\ cli.exit = -1
  /\ pc \in AwaitPcs
  /\ IF cli.abort_count > 2
       THEN /\ cli' = [cli EXCEPT !.exit = 1]
            /\ UNCHANGED <<aborted_, art>>
       ELSE /\ cli' = [cli EXCEPT !.abort_count = @ + 1]
            /\ aborted_' = TRUE
            /\ art' = IF pc \in ArticleAwaitPcs /\ ~aborted_
                        THEN [art EXCEPT !.abortTrial = trial]
                        ELSE art
  /\ UNCHANGED <<inVars, fsVars, cntVars, loopVars, pc, browser, status,
                 obs, since, runs, prior, scraper, progress>>

\* return await downloader.download(journals): the action's promise resolves
\* to the status, commander's parse() drops it, and the process ends when
\* nothing is left to run, with the exit status 0 of a normal end
Exit ==
  /\ cli.exit = -1
  /\ pc = "done"
  /\ cli' = [cli EXCEPT !.exit = 0]
  /\ UNCHANGED <<dlVarsNoCli, scraper, progress>>

\* download() runs as long as the process does
Running == cli.exit = -1 /\ Advance

\* options as commander delivers them: the default of --retry is the number
\* DefaultRetry, a value given on the command line is its text
InitCli ==
  /\ journals \in {b \in Batches : Sum(b) <= 1}
  /\ cli \in {NewCli(typed) : typed \in BOOLEAN}
  /\ options_ \in [retry : 0..DefaultRetry, retryInterval : RetryIntervals,
                   sleep : Sleeps]
  /\ options_.retry = DefaultRetry \/ (cli.typed /\ options_.retry <= MaxRetry)
  /\ cursorFile = [j \in JIdx |-> NoFile]
  /\ InitProcess
  /\ scraper = NoScraper
  /\ progress = NoProgress

NextCli == Running \/ Sigint \/ Exit

SpecCli == InitCli /\ [][NextCli]_vars

\* -------------------------------------------------- Progress and file names
\* the largest 1-based article index
MaxCount == 101

\* text.substr(-2): the last two characters, the whole text if it is shorter
SubstrLast2(text) ==
  IF Len(text) <= 2 THEN text ELSE SubSeq(text, Len(text) - 1, Len(text))

\* ` ${n}`.substr(-2)
progInd(n) == SubstrLast2(<<" ">> \o String(n))

\* get indicator()
indicator(p) ==
  progInd(p.count) \o <<"/">> \o progInd(p.total) \o <<":", " ">>
    \o String(p.trial) \o <<"/">> \o String(p.maxTrial)

\* `0${progress.count}`.substr(-2) + ` ${sanitized}.pdf`
pdfFile(count, sanitized) ==
  SubstrLast2(<<"0">> \o String(count)) \o <<" ">> \o sanitized
    \o <<".pdf">>

\* article titles, taken as sanitizeFilename and trim leave them
Titles == {<<"a">>, <<"a", "b">>}

Indicator ==
  /\ progress.indicator = <<>>
  /\ progress' = [progress EXCEPT !.indicator = indicator(progress)]
  /\ UNCHANGED <<dlVarsNoCli, cli, scraper>>

PdfFile ==
  /\ progress.pdfFile = <<>>
  /\ \E sanitized \in Titles :
       progress' = [progress EXCEPT
                      !.pdfFile = pdfFile(progress.count, sanitized)]
  /\ UNCHANGED <<dlVarsNoCli, cli, scraper>>

\* new Progress(count, total, trial + 1, maxTrial) of an article of a journal
\* of up to MaxCount articles
InitProgress ==
  /\ journals = <<0>>
  /\ options_ = [retry |-> MaxRetry, retryInterval |-> 0, sleep |-> 0]
  /\ cursorFile = [j \in JIdx |-> NoFile]
  /\ InitProcess
  /\ scraper = NoScraper
  /\ cli = NoCli
  /\ progress \in {NewProgress(count, total, trial1, MaxTrial(MaxRetry)) :
                      count \in 1..MaxCount, total \in {MaxCount - 1, MaxCount},
                      trial1 \in 1..MaxTrial(MaxRetry)}
  /\ progress.count <= progress.total

NextProgress == Indicator \/ PdfFile

SpecProgress == InitProgress /\ [][NextProgress]_vars

\* ------------------------------------ the Downloader of lib/downloader.js
\* It has the fields options_, logger_ and aborted_ and no counters; logger
\* counts the calls of logger.warn and logger.error.
oldFrame ==
  <<inVars, warnCount_, errorCount_, art, obs, since, runs, prior, scraper,
    cli, progress>>

OldAwaitPcs ==
  {"old_launch", "old_userAgent", "old_newPage", "old_login", "old_goto",
   "old_findPdf", "old_cookies", "old_fetch", "old_buffer", "old_logout",
   "old_close"}

\* catch (e) { this.error_(e.message); } of the loop over the journals
OldInnerCatch ==
  /\ logger' = [logger EXCEPT !.error = @ + 1]
  /\ pc' = "old_logout"

\* catch (e) { this.error_(e.message); } of the outer try
OldOuterCatch ==
  /\ logger' = [logger EXCEPT !.error = @ + 1]
  /\ pc' = "old_close"

\* download() is called and suspends on puppeteer.launch(opt)
OldDownload ==
  /\ pc = "start"
  /\ pc' = "old_launch"
  /\ UNCHANGED <<oldFrame, cursorFile, browser, aborted_, status, jdx,
                 cursor, i, trial, logger>>

\* abort(), while download() is suspended at an await
OldAbort ==
  /\ pc \in OldAwaitPcs
  /\ aborted_' = TRUE
  /\ UNCHANGED <<oldFrame, cursorFile, pc, browser, status, jdx, cursor, i,
                 trial, logger>>

\* const browser = await puppeteer.launch(opt), outside every try
OldLaunch ==
  /\ pc = "old_launch"
  /\ \E ok \in BOOLEAN :
       IF ok THEN browser' = "open" /\ pc' = "old_userAgent"
             ELSE browser' = browser /\ pc' = "rejected"
  /\ UNCHANGED <<oldFrame, cursorFile, aborted_, status, jdx, cursor, i,
                 trial, logger>>

\* const ua = await browser.userAgent()
OldUserAgent ==
  /\ pc = "old_userAgent"
  /\ \E ok \in BOOLEAN : pc' = IF ok THEN "old_newPage" ELSE "rejected"
  /\ UNCHANGED <<oldFrame, cursorFile, browser, aborted_, status, jdx,
                 cursor, i, trial, logger>>

\* const page = await browser.newPage()
OldNewPage ==
  /\ pc = "old_newPage"
  /\ \E ok \in BOOLEAN : pc' = IF ok THEN "old_login" ELSE "rejected"
  /\ UNCHANGED <<oldFrame, cursorFile, browser, aborted_, status, jdx,
                 cursor, i, trial, logger>>

\* await this.login_(page), in the outer try
OldLogin ==
  /\ pc = "old_login"
  /\ \E ok \in BOOLEAN :
       IF ok THEN pc' = "old_journals" /\ logger' = logger
             ELSE OldOuterCatch
  /\ UNCHANGED <<oldFrame, cursorFile, browser, aborted_, status, jdx,
                 cursor, i, trial>>

\* for (let journal of journals), in the inner try
OldJournals ==
  /\ pc = "old_journals"
  /\ pc' = IF jdx <= Len(journals) THEN "old_mkdirp" ELSE "old_logout"
  /\ UNCHANGED <<oldFrame, cursorFile, browser, aborted_, status, jdx,
                 cursor, i, trial, logger>>

\* mkdirp.sync(dir)
OldMkdirp ==
  /\ pc = "old_mkdirp"
  /\ \E ok \in BOOLEAN :
       IF ok THEN pc' = "old_readCursor" /\ logger' = logger
             ELSE OldInnerCatch
  /\ UNCHANGED <<oldFrame, cursorFile, browser, aborted_, status, jdx,
                 cursor, i, trial>>

\* const cursor = this.readCursor_(dir)
OldReadCursor ==
  /\ pc = "old_readCursor"
  /\ cursor' = readCursor_(cursorFile[jdx])
  /\ i' = cursor'
  /\ pc' = "old_forCond"
  /\ UNCHANGED <<oldFrame, cursorFile, browser, aborted_, status, jdx, trial,
                 logger>>

\* i < total
OldForCond ==
  /\ pc = "old_forCond"
  /\ pc' = IF Lt(i, journals[jdx]) THEN "old_writeCursor"
                                   ELSE "old_removeCursor"
  /\ UNCHANGED <<oldFrame, cursorFile, browser, aborted_, status, jdx,
                 cursor, i, trial, logger>>

\* this.writeCursor_(dir, i); if (this.aborted_) throw new Error('Aborted')
OldWriteCursor ==
  /\ pc = "old_writeCursor"
  /\ cursorFile' = [cursorFile EXCEPT ![jdx] = writeCursor_(i)]
  /\ IF aborted_
       THEN OldInnerCatch /\ trial' = trial
       ELSE pc' = "old_trialCond" /\ trial' = 0 /\ logger' = logger
  /\ UNCHANGED <<oldFrame, browser, aborted_, status, jdx, cursor, i>>

\* trial < maxTrial
OldTrialCond ==
  /\ pc = "old_trialCond"
  /\ pc' = IF trial < MaxTrial(options_.retry) THEN "old_goto"
                                               ELSE "old_forInc"
  /\ UNCHANGED <<oldFrame, cursorFile, browser, aborted_, status, jdx,
                 cursor, i, trial, logger>>

\* await page.goto(article.url)
OldGoto ==
  /\ pc = "old_goto"
  /\ \E ok \in BOOLEAN : pc' = IF ok THEN "old_findPdf" ELSE "old_catch"
  /\ UNCHANGED <<oldFrame, cursorFile, browser, aborted_, status, jdx,
                 cursor, i, trial, logger>>

\* const pdfUrl = await page.evaluate(...); if (!pdfUrl) warn and return
OldFindPdf ==
  /\ pc = "old_findPdf"
  /\ \E r \in {"url", "null", "throws"} :
       CASE r = "url" -> pc' = "old_cookies" /\ logger' = logger
         [] r = "null" -> /\ pc' = "old_forInc"
                          /\ logger' = [logger EXCEPT !.warn = @ + 1]
         [] r = "throws" -> pc' = "old_catch" /\ logger' = logger
  /\ UNCHANGED <<oldFrame, cursorFile, browser, aborted_, status, jdx,
                 cursor, i, trial>>

\* const cookies = await page.cookies(pdfUrl)
OldCookies ==
  /\ pc = "old_cookies"
  /\ \E ok \in BOOLEAN : pc' = IF ok THEN "old_fetch" ELSE "old_catch"
  /\ UNCHANGED <<oldFrame, cursorFile, browser, aborted_, status, jdx,
                 cursor, i, trial, logger>>

\* const res = await fetch(pdfUrl, ...); if (!res.ok) throw
OldFetch ==
  /\ pc = "old_fetch"
  /\ \E r \in {"ok", "notOk", "throws"} :
       pc' = IF r = "ok" THEN "old_buffer" ELSE "old_catch"
  /\ UNCHANGED <<oldFrame, cursorFile, browser, aborted_, status, jdx,
                 cursor, i, trial, logger>>

\* const buf = await res.buffer()
OldBuffer ==
  /\ pc = "old_buffer"
  /\ \E ok \in BOOLEAN : pc' = IF ok THEN "old_save" ELSE "old_catch"
  /\ UNCHANGED <<oldFrame, cursorFile, browser, aborted_, status, jdx,
                 cursor, i, trial, logger>>

\* fs.writeFileSync(pdfPath, buf); sleep.sleep(sleep); break
OldSave ==
  /\ pc = "old_save"
  /\ pc' = "old_forInc"
  /\ UNCHANGED <<oldFrame, cursorFile, browser, aborted_, status, jdx,
                 cursor, i, trial, logger>>

\* catch (e) of downloadArticleWithRetry_; the retry sleep is synchronous
OldCatch ==
  /\ pc = "old_catch"
  /\ logger' = IF trial < options_.retry
                 THEN [logger EXCEPT !.warn = @ + 1]
                 ELSE [logger EXCEPT !.error = @ + 1]
  /\ trial' = trial + 1
  /\ pc' = "old_trialCond"
  /\ UNCHANGED <<oldFrame, cursorFile, browser, aborted_, status, jdx,
                 cursor, i>>

\* ++i
OldForInc ==
  /\ pc = "old_forInc"
  /\ i' = i + 1
  /\ pc' = "old_forCond"
  /\ UNCHANGED <<oldFrame, cursorFile, browser, aborted_, status, jdx,
                 cursor, trial, logger>>

\* this.removeCursor_(dir): unlinkSync throws when there is no file
OldRemoveCursor ==
  /\ pc = "old_removeCursor"
  /\ IF cursorFile[jdx].exists
       THEN /\ cursorFile' = [cursorFile EXCEPT ![jdx] = NoFile]
            /\ jdx' = jdx + 1
            /\ pc' = "old_journals"
            /\ logger' = logger
       ELSE /\ OldInnerCatch
            /\ UNCHANGED <<cursorFile, jdx>>
  /\ UNCHANGED <<oldFrame, browser, aborted_, status, cursor, i, trial>>

\* finally { await this.logout_(page); } of the inner try, in the outer try
OldLogout ==
  /\ pc = "old_logout"
  /\ \E ok \in BOOLEAN :
       IF ok THEN pc' = "old_close" /\ logger' = logger
             ELSE OldOuterCatch
  /\ UNCHANGED <<oldFrame, cursorFile, browser, aborted_, status, jdx,
                 cursor, i, trial>>

\* finally { await browser.close(); }
OldClose ==
  /\ pc = "old_close"
  /\ browser' = "closed"
  /\ pc' = "old_return"
  /\ UNCHANGED <<oldFrame, cursorFile, aborted_, status, jdx, cursor, i,
                 trial, logger>>

\* return this.aborted_ ? 1 : 0
OldReturn ==
  /\ pc = "old_return"
  /\ status' = IF aborted_ THEN 1 ELSE 0
  /\ pc' = "done"
  /\ UNCHANGED <<oldFrame, cursorFile, browser, aborted_, jdx, cursor, i,
                 trial, logger>>

InitOld ==
  /\ journals \in {b \in Batches : Sum(b) < MaxArticles}
  /\ options_ \in [retry : 0..MaxRetry, retryInterval : {5}, sleep : {0}]
  /\ cursorFile = [j \in JIdx |-> NoFile]
  /\ InitProcess
  /\ scraper = NoScraper
  /\ cli = NoCli
  /\ progress = NoProgress

NextOld ==
  \/ OldDownload \/ OldAbort \/ OldLaunch \/ OldUserAgent \/ OldNewPage
  \/ OldLogin \/ OldJournals \/ OldMkdirp \/ OldReadCursor \/ OldForCond
  \/ OldWriteCursor \/ OldTrialCond \/ OldGoto \/ OldFindPdf \/ OldCookies
  \/ OldFetch \/ OldBuffer \/ OldSave \/ OldCatch \/ OldForInc
  \/ OldRemoveCursor \/ OldLogout \/ OldClose \/ OldReturn

SpecOld == InitOld /\ [][NextOld]_vars

\* -------------------------------------------- download() called repeatedly
\* download() calls made on one Downloader
MaxCalls == 2

\* download(journals) is called again on the Downloader whose download() has
\* returned: the locals of download() are new, the fields set by the
\* constructor (aborted_, warnCount_, errorCount_) and the logger are the
\* object's, the files are where the earlier call left them.
DownloadAgain ==
  /\ pc = "done"
  /\ obs.calls < MaxCalls
  /\ pc' = "launch"
  /\ browser' = "null"
  /\ status' = -1
  /\ jdx' = 1
  /\ cursor' = 0
  /\ i' = 0
  /\ trial' = 0
  /\ art' = NewArt(errorCount_)
  /\ obs' = [NewObs EXCEPT !.calls = obs.calls + 1,
                           !.callErrors0 = logger.error]
  /\ info_
  /\ UNCHANGED <<inVars, fsVars, aborted_, since, runs, prior, scraper, cli,
                 progress>>

InitAgain == Init /\ options_ \in RestartOptions

NextAgain == Next \/ DownloadAgain

SpecAgain == InitAgain /\ [][NextAgain]_vars

\* ------------------------------------------------------------------ scrape()
\* scrape() calls made on one object
MaxScrapes == 2

dlVars == <<dlVarsNoCli, cli, progress>>

\* get metadata(): the property names of the object it builds
metadata(s) ==
  (IF s.kind = "Volume" THEN {"name", "volume", "url"}
                        ELSE {"name", "volume", "issue", "url"})
  \cup (IF ~s.content THEN {}
        ELSE IF s.kind = "Volume" THEN {"issues"} ELSE {"date", "articles"})
  \cup (IF s.error THEN {"error"} ELSE {})

\* scrape(options) is called and suspends on puppeteer.launch
Scrape ==
  /\ scraper.pc = "idle"
  /\ scraper.calls < MaxScrapes
  /\ scraper' = [scraper EXCEPT !.pc = "launch", !.calls = @ + 1,
                                !.browser = "null", !.closes = 0,
                                !.failed = "none", !.outcome = "none",
                                !.returned = {}]
  /\ UNCHANGED dlVars

\* catch (e) { this.error = e.message; }
ScrapeCatch(step) ==
  scraper' = [scraper EXCEPT !.error = TRUE, !.failed = step,
                             !.pc = "finally"]

\* puppeteer.launch: inside the try block in Volume.scrape, before it in
\* Journal.scrape, whose promise then rejects
ScrapeLaunch ==
  /\ scraper.pc = "launch"
  /\ \E ok \in BOOLEAN :
       IF ok
         THEN scraper' = [scraper EXCEPT !.browser = "open", !.pc = "newPage"]
         ELSE IF scraper.kind = "Volume"
                THEN ScrapeCatch("launch")
                ELSE scraper' = [scraper EXCEPT !.failed = "launch",
                                                !.outcome = "rejected",
                                                !.pc = "idle"]
  /\ UNCHANGED dlVars

ScrapeNewPage ==
  /\ scraper.pc = "newPage"
  /\ \E ok \in BOOLEAN :
       IF ok THEN scraper' = [scraper EXCEPT !.pc = "goto"]
             ELSE ScrapeCatch("newPage")
  /\ UNCHANGED dlVars

ScrapeGoto ==
  /\ scraper.pc = "goto"
  /\ \E ok \in BOOLEAN :
       IF ok THEN scraper' = [scraper EXCEPT !.pc = "title"]
             ELSE ScrapeCatch("goto")
  /\ UNCHANGED dlVars

\* page.title(): rejects, is the 404 title, or is a title with or without
\* the date in it (a Journal without it reads the date from the page)
ScrapeTitle ==
  /\ scraper.pc = "title"
  /\ \E r \in {"dated", "undated", "notFound", "throws"} :
       CASE r = "throws" -> ScrapeCatch("title")
         [] r = "notFound" -> ScrapeCatch("notFound")
         [] r = "undated" /\ scraper.kind = "Journal" ->
              scraper' = [scraper EXCEPT !.pc = "date"]
         [] OTHER -> scraper' = [scraper EXCEPT !.pc = "evaluate"]
  /\ UNCHANGED dlVars

\* Journal._getDateFromPage
ScrapeDate ==
  /\ scraper.pc = "date"
  /\ \E ok \in BOOLEAN :
       IF ok THEN scraper' = [scraper EXCEPT !.pc = "evaluate"]
             ELSE ScrapeCatch("date")
  /\ UNCHANGED dlVars

\* page.evaluate of the collect function, then this.content = {...}
ScrapeEvaluate ==
  /\ scraper.pc = "evaluate"
  /\ \E ok \in BOOLEAN :
       IF ok THEN scraper' = [scraper EXCEPT !.content = TRUE,
                                             !.pc = "finally"]
             ELSE ScrapeCatch("evaluate")
  /\ UNCHANGED dlVars

\* a Volume.scrape that closes the browser without testing it
ScrapeFinally_Unguarded ==
  /\ scraper.pc = "finally"
  /\ scraper' = [scraper EXCEPT !.pc = "close"]
  /\ UNCHANGED dlVars

\* Volume: if (browser) { await browser.close(); }
\* Journal: finally { await browser.close(); }
ScrapeFinally ==
  /\ scraper.pc = "finally"
  /\ scraper' = [scraper EXCEPT !.pc =
       IF scraper.kind = "Volume" /\ scraper.browser = "null"
         THEN "return" ELSE "close"]
  /\ UNCHANGED dlVars

ScrapeClose ==
  /\ scraper.pc = "close"
  /\ scraper' = [scraper EXCEPT !.browser = "closed", !.closes = @ + 1,
                                !.pc = "return"]
  /\ UNCHANGED dlVars

\* return this.metadata;
ScrapeReturn ==
  /\ scraper.pc = "return"
  /\ scraper' = [scraper EXCEPT !.returned = metadata(scraper),
                                !.outcome = "resolved", !.pc = "idle"]
  /\ UNCHANGED dlVars

\* one Volume or one Journal, scraped up to MaxScrapes times
InitScrape ==
  /\ journals = <<0>>
  /\ options_ = [retry |-> 0, retryInterval |-> 0, sleep |-> 0]
  /\ cursorFile = [j \in JIdx |-> NoFile]
  /\ InitProcess
  /\ scraper \in {NewScraper(kind) : kind \in {"Volume", "Journal"}}
  /\ cli = NoCli
  /\ progress = NoProgress

NextScrape ==
  \/ Scrape
  \/ ScrapeLaunch
  \/ ScrapeNewPage
  \/ ScrapeGoto
  \/ ScrapeTitle
  \/ ScrapeDate
  \/ ScrapeEvaluate
  \/ ScrapeFinally
  \/ ScrapeClose
  \/ ScrapeReturn

SpecScrape == InitScrape /\ [][NextScrape]_vars

\* ------------------------------------------------- ids of Volume and Journal
\* the longest id given to a constructor
MaxIdLen == 7

\* the characters of an id; "nature" stands for that run of letters
Chars == {"nature", "0", "1", ":"}

Ids == UNION {[1..n -> Chars] : n \in 0..MaxIdLen}

\* position of the first ':' of a text, 0 when it has none
FirstColon(text) ==
  IF \E k \in 1..Len(text) : text[k] = ":"
    THEN CHOOSE k \in 1..Len(text) :
           text[k] = ":" /\ \A m \in 1..(k - 1) : text[m] # ":"
    ELSE 0

\* id.split(':')
RECURSIVE split(_)
split(text) ==
  IF FirstColon(text) = 0 THEN <<text>>
  ELSE <<SubSeq(text, 1, FirstColon(text) - 1)>>
         \o split(SubSeq(text, FirstColon(text) + 1, Len(text)))

\* `${n}` of a number
NumberText(n) == IF n = NaN THEN <<"NaN">> ELSE String(n)

\* constructor(id): the parts that the destructuring leaves undefined make
\* it throw, as does a name other than 'nature'; Volume keeps
\* parseInt(volume), Journal keeps the texts
Constructor ==
  /\ scraper.pc = "new"
  /\ LET parts == split(scraper.arg)
         need == IF scraper.kind = "Volume" THEN 2 ELSE 3
     IN IF Len(parts) < need \/ parts[1] # <<"nature">>
          THEN scraper' = [scraper EXCEPT !.pc = "thrown"]
          ELSE scraper' =
                 [scraper EXCEPT
                    !.pc = "idle",
                    !.name = parts[1],
                    !.volume = IF scraper.kind = "Volume"
                                 THEN ParseInt(parts[2]) ELSE parts[2],
                    !.issue = IF scraper.kind = "Volume"
                                THEN <<>> ELSE parts[3]]
  /\ UNCHANGED dlVars

\* get id()
Id ==
  /\ scraper.pc = "idle"
  /\ scraper' =
       [scraper EXCEPT
          !.pc = "id",
          !.id = IF scraper.kind = "Volume"
                   THEN scraper.name \o <<":">> \o NumberText(scraper.volume)
                   ELSE scraper.name \o <<":">> \o scraper.volume
                          \o <<":">> \o scraper.issue]
  /\ UNCHANGED dlVars

\* new Volume(id) or new Journal(id) is being called with some text
InitId ==
  /\ journals = <<0>>
  /\ options_ = [retry |-> 0, retryInterval |-> 0, sleep |-> 0]
  /\ cursorFile = [j \in JIdx |-> NoFile]
  /\ InitProcess
  /\ cli = NoCli
  /\ progress = NoProgress
  /\ scraper \in {[NewScraper(kind) EXCEPT !.pc = "new", !.arg = id] :
                     kind \in {"Volume", "Journal"}, id \in Ids}

NextId == Constructor \/ Id

SpecId == InitId /\ [][NextId]_vars

\* ==================================================================== claims
Articles(j) == 0..(journals[j] - 1)

\* the current article has run all its trials and every one of them threw
AllTrialsFailed == pc = "forInc" /\ art.trials > 0 /\ art.fails = art.trials

\* C1: download() returns a non-zero status if and only if logger.error was
\* called at least once during the run (0 after warnings only, or nothing).
C1_StatusIffErrorLogged ==
  pc = "done" => /\ status \in {0, 1}
                 /\ (status # 0 <=> logger.error > 0)

\* a run that ended with warnings only
C1_Witness == pc = "done" /\ logger.warn > 0 /\ logger.error = 0 /\ status = 0

\* C2: a journal whose cursor file holds c (0 <= c <= N) when its processing
\* starts: no article below c is navigated to in that run, and the first
\* article navigated to (there is one once the journal has finished, if
\* c < N) is article c.
C2_ResumeAtCursor ==
  \A j \in obs.started :
    LET c == ParseInt(obs.startFile[j].text) IN
    (obs.startFile[j].exists /\ c \in 0..journals[j]) =>
      /\ \A k \in Articles(j) : <<j, k>> \in obs.navigated => k >= c
      /\ obs.first[j] \in {-1, c}
      /\ (j \in obs.finished /\ c < journals[j]) => obs.first[j] = c

\* a restarted run that resumed a journal at a cursor c >= 1
C2_Witness ==
  \E j \in obs.started :
    /\ obs.startFile[j].exists
    /\ ParseInt(obs.startFile[j].text) >= 1
    /\ obs.first[j] = ParseInt(obs.startFile[j].text)

\* C6: over any sequence of runs of the command on one output directory,
\* each killed at any step or aborted or run to its end, when the cursor file
\* of a journal is about to be removed every article 0..N-1 of the journal
\* has been navigated to at least once since that file was created.
C6_AtLeastOnce ==
  (pc = "removeCursor" /\ cursorFile[jdx].exists) =>
    since[jdx] = Articles(jdx)

\* the removal that ends a journal resumed at c >= 1 after a restart
C6_Witness ==
  /\ pc = "removeCursor"
  /\ cursorFile[jdx].exists
  /\ runs = 1
  /\ obs.startFile[jdx].exists
  /\ ParseInt(obs.startFile[jdx].text) >= 1

\* C3, state part: once the per-article loop of a journal has ended by its
\* condition and the processing of the journal is over, the journal has no
\* cursor file, whether or not one of its articles failed for good.
C3_NoCursorAfterLoop ==
  \A j \in obs.loopEnded :
    (pc = "removeCursor" /\ jdx = j) \/ ~cursorFile[j].exists

\* C3, step part: a cursor file disappears only in removeCursor_ of the
\* current journal, after its loop ended by its condition (i is not below
\* the article count) and with no exception thrown in the run.
C3_RemovedOnlyAfterLoop ==
  \A j \in JIdx :
    (cursorFile[j].exists /\ ~cursorFile'[j].exists) =>
      /\ pc = "removeCursor"
      /\ j = jdx
      /\ j \in obs.loopEnded
      /\ ~Lt(i, journals[j])
      /\ obs.thrown = "none"

\* C3: a journal whose per-article loop runs to its end without an abort
\* being observed has no cursor file when its processing ends, even when an
\* article failed after its retries; the cursor file is removed on no other
\* path.
C3_CursorRemoval ==
  [](C3_NoCursorAfterLoop) /\ [][C3_RemovedOnlyAfterLoop]_vars

\* a finished journal, its cursor removed, one of whose articles failed
C3_Witness ==
  \E j \in obs.finished :
    /\ ~cursorFile[j].exists
    /\ \E k \in Articles(j) : <<j, k>> \in obs.failed /\ <<j, k>> \in obs.written

\* index of the last article of journal j navigated to in this run, or -1
LastAttempted(j) ==
  IF \E k \in Articles(j) : <<j, k>> \in obs.navigated
    THEN CHOOSE k \in Articles(j) :
           /\ <<j, k>> \in obs.navigated
           /\ \A m \in Articles(j) : <<j, m>> \in obs.navigated => m <= k
    ELSE -1

\* C4 as stated, for the journal in which the abort was observed: at the end
\* of an aborted run its cursor file exists and holds the index of the last
\* article whose attempt was initiated.
C4_CursorIsLastAttempted ==
  (pc = "done" /\ obs.thrown = "Aborted") =>
    /\ cursorFile[jdx].exists
    /\ ParseInt(cursorFile[jdx].text) = LastAttempted(jdx)

\* C4 amended: at the end of an aborted run the cursor file of the journal
\* in which the abort was observed exists and holds the index of the loop
\* iteration entered last, which is the article the abort suppressed: that
\* article was not navigated to and the last article attempted, if any, is
\* the one before it. A journal the run never reached got no cursor file.
C4_CursorIsSuppressedArticle ==
  pc = "done" =>
    /\ obs.thrown = "Aborted" =>
         /\ cursorFile[jdx].exists
         /\ ParseInt(cursorFile[jdx].text) = i
         /\ <<jdx, i>> \in obs.written
         /\ <<jdx, i>> \notin obs.navigated
         /\ LastAttempted(jdx) \in {-1, i - 1}
         /\ (i > cursor => LastAttempted(jdx) = i - 1)
    /\ \A j \in JIdx \ obs.started : ~cursorFile[j].exists

\* an aborted run that had attempted an article of the journal before
C4_Witness ==
  /\ pc = "done"
  /\ obs.thrown = "Aborted"
  /\ i >= 1
  /\ Len(journals) > jdx

\* C5: every article navigated to had its index written to the cursor file
\* before, and while an article is being attempted (from its first trial to
\* the end of its last one) the cursor file holds its index and no greater
\* index has been written for the journal.
C5_CursorWrittenBeforeAttempt ==
  /\ \A a \in obs.navigated : a \in obs.written
  /\ pc \in TrialPcs \cup {"throttle"} =>
       /\ cursorFile[jdx].exists
       /\ ParseInt(cursorFile[jdx].text) = i
       /\ \A w \in obs.written : w[1] = jdx => w[2] <= i

\* the second trial of the second article of a journal is under way
C5_Witness == pc = "goto" /\ i = 1 /\ trial = 1 /\ art.fails = 1

\* C7: an article whose every trial fails runs 1 + R trials and logs exactly
\* R warnings and exactly 1 error; the retry sleep is called R times when
\* retryInterval > 0 and never when retryInterval = 0.
C7_AlwaysFailing ==
  AllTrialsFailed =>
    /\ art.trials = 1 + options_.retry
    /\ art.warns = options_.retry
    /\ art.errors = 1
    /\ art.retrySleeps = IF options_.retryInterval > 0 THEN options_.retry
                                                       ELSE 0

\* an always-failing article retried with a positive interval
C7_Witness ==
  AllTrialsFailed /\ options_.retry >= 1 /\ options_.retryInterval > 0

\* C8: an article whose PDF was saved on trial k failed k - 1 times before:
\* it ran exactly k trials, logged k - 1 warnings and no error, saved once,
\* and no trial follows the successful one.
C8_SuccessOnTrialK ==
  art.saves >= 1 =>
    /\ art.saves = 1
    /\ pc \notin TrialPcs
    /\ art.trials = art.fails + 1
    /\ art.trials <= MaxTrial(options_.retry)
    /\ art.warns = art.fails
    /\ art.errors = 0

\* an article saved on its second trial
C8_Witness == pc = "forInc" /\ art.saves = 1 /\ art.fails = 1 /\ art.trials = 2

\* C9: an article that fails on all its trials raises the error counter by
\* exactly 1, and the run goes on: logout is performed, and unless an
\* exception ended the journal loop (abort, mkdirp, unlink) every later
\* article of the journal and every article of the later journals is
\* navigated to.
C9_FailureIsLocal ==
  /\ AllTrialsFailed => errorCount_ = art.errors0 + 1
  /\ (pc = "done" /\ obs.failed # {}) => obs.logouts = 1
  /\ (pc = "done" /\ obs.thrown = "none") =>
       \A f \in obs.failed :
         /\ \A k \in Articles(f[1]) : k > f[2] => <<f[1], k>> \in obs.navigated
         /\ \A j \in JIdx : j > f[1] =>
              /\ j \in obs.finished
              /\ \A k \in Articles(j) : <<j, k>> \in obs.navigated

\* a run that ended normally although the first article of a two-article
\* journal, followed by another journal, had failed for good
C9_Witness ==
  /\ pc = "done"
  /\ obs.thrown = "none"
  /\ <<1, 0>> \in obs.failed
  /\ Len(journals) = 2
  /\ journals[1] = 2
  /\ journals[2] >= 1

\* C10: the trial that finds no PDF link logs exactly one warning and is the
\* last trial of its article (so an article without link at its first trial
\* runs one trial, whatever the retry count); no error is counted, no file
\* is saved, no throttle sleep is taken, and the journal loop moves on.
C10_NoLinkIsSkipped ==
  art.nolinks >= 1 =>
    /\ art.nolinks = 1
    /\ pc \notin TrialPcs \cup {"throttle"}
    /\ art.trials = art.fails + 1
    /\ art.warns = art.fails + 1
    /\ art.errors = 0
    /\ art.saves = 0
    /\ art.throttles = 0
    /\ pc = "forInc" => errorCount_ = art.errors0

\* an article without link at its first trial, with retries configured
C10_Witness ==
  /\ pc = "forInc"
  /\ art.nolinks = 1
  /\ art.trials = 1
  /\ art.warns = 1
  /\ options_.retry >= 1

\* C11: when abort() was called at any point between the call of download()
\* and its return (or before the call), download() returns a non-zero status.
C11_AbortYieldsNonZero == (pc = "done" /\ aborted_) => status # 0

\* the current downloadArticleWithRetry_ call ran to its normal end: a trial
\* saved the PDF (and took the throttle sleep if one is configured) or found
\* no link, or all 1 + retry trials failed; every failed trial that had a
\* retry left was followed by the retry sleep if one is configured
ArticleEnded ==
  /\ \/ /\ art.saves = 1
        /\ art.trials = art.fails + 1
        /\ art.throttles = IF options_.sleep > 0 THEN 1 ELSE 0
     \/ /\ art.nolinks = 1
        /\ art.trials = art.fails + 1
     \/ /\ art.fails = art.trials
        /\ art.trials = 1 + options_.retry
        /\ art.errors = 1
  /\ art.warns = art.nolinks + (IF art.fails > options_.retry
                                  THEN options_.retry ELSE art.fails)
  /\ art.retrySleeps = IF options_.retryInterval = 0 THEN 0
                       ELSE IF art.fails > options_.retry THEN options_.retry
                       ELSE art.fails

\* C12: the abort flag is observed only at the top of a per-article loop
\* iteration. When abort() is called while an article is in flight, nothing
\* is thrown until that article has run to its normal end (its current trial
\* and all remaining retry trials, retry sleeps included); the 'Aborted'
\* exception suppresses the loop iteration after it: every article of the
\* journal before that iteration was attempted, the article of that
\* iteration is not.
C12_AbortObservedAtLoopTop ==
  /\ pc = "forInc" => ArticleEnded
  /\ art.abortTrial >= 0 =>
       /\ aborted_
       /\ pc \in TrialPcs \cup {"throttle", "forInc"} => obs.thrown = "none"
       /\ pc \notin TrialPcs \cup {"throttle"} => ArticleEnded
  /\ obs.thrown = "Aborted" =>
       /\ <<jdx, i>> \notin obs.navigated
       /\ \A k \in Articles(jdx) :
            (cursor <= k /\ k < i) => <<jdx, k>> \in obs.navigated
       /\ art.trials > 0 => ArticleEnded

\* abort() was called during the first trial of an article; the article then
\* failed all its 1 + retry trials, sleeping before each retry, and the next
\* loop iteration threw 'Aborted'
C12_Witness ==
  /\ obs.thrown = "Aborted"
  /\ art.abortTrial = 0
  /\ options_.retry >= 1
  /\ art.fails = 1 + options_.retry
  /\ art.retrySleeps = options_.retry
  /\ i >= 1

\* C13: when download() has returned, browser.close() was called exactly once
\* if puppeteer.launch had succeeded and never if it had not, whatever path
\* the run took (success, launch, newPage or login failure, journal
\* exception, abort, logout failure); it is never called twice.
C13_BrowserClosedOnce ==
  /\ obs.closes <= 1
  /\ obs.closes = 1 => browser = "closed"
  /\ pc = "done" => obs.closes = IF browser = "null" THEN 0 ELSE 1

\* a run whose only error is the failure of logout_, the browser closed
C13_Witness ==
  /\ pc = "done"
  /\ obs.logouts = 1
  /\ obs.thrown = "none"
  /\ obs.failed = {}
  /\ logger.error = 1
  /\ obs.closes = 1

\* C14: after puppeteer.launch has thrown, download() goes straight to its
\* end and resolves to 1: exactly one error is logged and counted, login_ is
\* not called, no journal is entered (no mkdirp, no cursor access, no article
\* attempt), logout_ is not called and nothing is closed.
C14_LaunchFailure ==
  (browser = "null" /\ pc \notin {"start", "launch"}) =>
    /\ pc \in {"finally", "return", "done"}
    /\ logger.error = 1
    /\ errorCount_ = 1
    /\ obs.logins = 0
    /\ obs.entered = {}
    /\ obs.started = {}
    /\ obs.written = {}
    /\ obs.navigated = {}
    /\ obs.logouts = 0
    /\ obs.closes = 0
    /\ \A j \in JIdx : cursorFile[j] = NoFile
    /\ pc = "done" => status = 1

\* download() has returned 1 after a failed launch
C14_Witness == pc = "done" /\ browser = "null" /\ status = 1 /\ logger.error = 1

\* C15: after login_ has failed (a page call threw, or the login was
\* refused) exactly one error is logged and counted, no journal is entered
\* (no mkdirp, no cursor read, write or removal, no article attempt),
\* logout_ is not called, and download() closes the browser and returns 1.
C15_LoginFailure ==
  (obs.logins = 1 /\ ~obs.loggedIn) =>
    /\ pc \in {"finally", "close", "return", "done"}
    /\ logger.error = 1
    /\ errorCount_ = 1
    /\ obs.entered = {}
    /\ obs.started = {}
    /\ obs.written = {}
    /\ obs.navigated = {}
    /\ obs.finished = {}
    /\ \A j \in JIdx : cursorFile[j] = NoFile
    /\ obs.logouts = 0
    /\ pc \in {"return", "done"} => obs.closes = 1 /\ browser = "closed"
    /\ pc = "done" => status = 1

\* download() has returned after a failed login, the browser closed
C15_Witness ==
  /\ pc = "done"
  /\ obs.logins = 1
  /\ ~obs.loggedIn
  /\ browser = "closed"
  /\ status = 1

\* C16: logout_ is called at most once, and by the time download() tears the
\* session down it has been called exactly once if login_ succeeded and not
\* at all if it did not. The call comes after every article attempt of the
\* run (also after an abort or another journal exception) and before
\* browser.close().
C16_LogoutOnceAfterArticles ==
  /\ obs.logouts <= 1
  /\ pc = "logout" => obs.logouts = 0 /\ obs.closes = 0 /\ obs.loggedIn
  /\ obs.logouts = 1 => pc \in {"finally", "close", "return", "done"}
  /\ pc = "close" => obs.closes = 0
  /\ pc \in {"finally", "close", "return", "done"} =>
       obs.logouts = IF obs.loggedIn THEN 1 ELSE 0

\* a run that attempted an article, observed an abort, logged out and closed
C16_Witness ==
  /\ pc = "done"
  /\ obs.thrown = "Aborted"
  /\ obs.navigated # {}
  /\ obs.logouts = 1
  /\ obs.closes = 1

\* C17: when the processing of journal j throws (mkdirp fails, unlink of the
\* cursor fails, or the abort is observed), exactly one error is logged for
\* it on top of the errors of the articles that failed before (a failing
\* logout_ may add one more afterwards), no later journal of the batch is
\* entered or has its cursor touched or an article attempted, and download()
\* returns 1.
C17_JournalException ==
  obs.thrown # "none" =>
    /\ pc \in {"logout", "finally", "close", "return", "done"}
    /\ jdx \in obs.entered
    /\ pc = "logout" => logger.error = Cardinality(obs.failed) + 1
    /\ logger.error - Cardinality(obs.failed) \in {1, 2}
    /\ errorCount_ = logger.error
    /\ \A j \in JIdx : j > jdx =>
         /\ j \notin obs.entered
         /\ j \notin obs.started
         /\ cursorFile[j] = NoFile
         /\ \A k \in Articles(j) :
              <<j, k>> \notin obs.written /\ <<j, k>> \notin obs.navigated
    /\ pc = "done" => status = 1

\* mkdirp failed for the first of two journals and download() has returned
C17_Witness ==
  /\ pc = "done"
  /\ obs.thrown = "mkdirp"
  /\ jdx = 1
  /\ Len(journals) = 2
  /\ journals[2] >= 1
  /\ logger.error = 1

\* a finished run in which every trial of the only article failed and nothing
\* else went wrong
ScenarioAlwaysFails ==
  /\ pc = "done"
  /\ obs.loggedIn
  /\ obs.failed = {<<1, 0>>}
  /\ obs.thrown = "none"
  /\ logger.error = 1

\* C18 as stated: one journal of one article, retry = 4, every trial fails:
\* 4 warnings, 1 error, status 1, no file saved, and the cursor file still
\* present with the value 0 when the run ends.
C18_ScenarioCursorLeft ==
  ScenarioAlwaysFails =>
    /\ logger.warn = 4
    /\ logger.error = 1
    /\ status = 1
    /\ art.saves = 0
    /\ cursorFile[1] = File(<<"0">>)

\* C18 amended: one journal of one article, retry = 4, every trial fails:
\* 5 trials, 4 warnings, 1 error, status 1, no file saved; the cursor was
\* written once, with the value 0, and has been removed when the run ends.
C18_ScenarioCursorRemoved ==
  ScenarioAlwaysFails =>
    /\ art.trials = 5
    /\ logger.warn = 4
    /\ logger.error = 1
    /\ status = 1
    /\ art.saves = 0
    /\ obs.written = {<<1, 0>>}
    /\ obs.finished = {1}
    /\ cursorFile[1] = NoFile

\* the scenario has run to its end, with the retry sleeps taken
C18_Witness ==
  /\ ScenarioAlwaysFails
  /\ options_.retry = 4
  /\ art.fails = 5
  /\ art.retrySleeps = 4
  /\ status = 1

\* journal j was finished by an interrupted earlier process: all its articles
\* were processed and its cursor file had been removed
FinishedBefore(j) ==
  /\ Articles(j) # {}
  /\ \A k \in Articles(j) : <<j, k>> \in prior
  /\ j \in obs.started => ~obs.startFile[j].exists

\* C19: after a batch was interrupted (abort or kill) and the command was
\* started again with the same input, no article that an interrupted process
\* had already processed is navigated to again; in particular no article of
\* a journal that was finished before the interruption.
C19_NoRefetchAfterRestart ==
  /\ \A a \in obs.navigated : a \notin prior
  /\ \A j \in JIdx : FinishedBefore(j) =>
       \A k \in Articles(j) : <<j, k>> \notin obs.navigated

\* the text is a decimal integer: one or more digits and nothing else
IsDecimal(t) == t # <<>> /\ \A k \in 1..Len(t) : IsDigit(t[k])

\* C20: for a cursor file that is absent, or present with a content that is
\* not a decimal integer, readCursor_ returns 0, and a journal found with
\* such a file is processed from article 0: once the journal has finished,
\* its first article navigated to is article 0.
C20_CorruptCursorReadsZero ==
  \A j \in obs.started :
    (~obs.startFile[j].exists \/ ~IsDecimal(obs.startFile[j].text)) =>
      /\ readCursor_(obs.startFile[j]) = 0
      /\ (pc = "forCond" /\ jdx = j) => cursor = 0
      /\ (j \in obs.finished /\ journals[j] >= 1) => obs.first[j] = 0

\* one step of download(): it makes at most one logger.warn or logger.error
\* call; a warn call adds 1 to warnCount_ and nothing to errorCount_, an error
\* call adds 1 to errorCount_ and nothing to warnCount_, a step without such
\* a call (info only) changes neither counter
C21_Step ==
  /\ logger'.warn - logger.warn \in {0, 1}
  /\ logger'.error - logger.error \in {0, 1}
  /\ warnCount_' - warnCount_ = logger'.warn - logger.warn
  /\ errorCount_' - errorCount_ = logger'.error - logger.error
  /\ warnCount_' >= warnCount_
  /\ errorCount_' >= errorCount_

\* C21: every warn_ call increments warnCount_ by exactly 1 and leaves
\* errorCount_ unchanged, every error_ call increments errorCount_ by exactly
\* 1 and leaves warnCount_ unchanged, info_ calls change neither; both
\* counters never decrease during a run.
C21_CountersFollowCalls == [][C21_Step]_vars

\* a run in which both surfaces were called, several warnings among them
C21_Witness ==
  /\ logger.warn >= 2
  /\ logger.error >= 1
  /\ warnCount_ = logger.warn
  /\ errorCount_ = logger.error

\* C22: the throttle sleep is taken exactly once after the successful save
\* of an article when options.sleep > 0, for options.sleep seconds, and not
\* otherwise: never when options.sleep is 0, never for an article that ended
\* without link or with all its trials failed, never after a failed trial.
C22_ThrottleAfterSave ==
  /\ art.throttles <= art.saves
  /\ art.throttles = IF options_.sleep > 0 THEN art.saves ELSE 0
  /\ art.throttleTime = art.saves * options_.sleep
  /\ pc = "throttle" =>
       art.saves = 1 /\ art.throttles = 1 /\ options_.sleep > 0
  /\ (art.nolinks >= 1 \/ art.saves = 0) => art.throttles = 0
  /\ pc \in {"catch", "retrySleep"} => art.throttles = 0

\* an article saved on its second trial, now in its throttle sleep
C22_Witness ==
  /\ pc = "throttle"
  /\ art.fails = 1
  /\ art.saves = 1
  /\ art.throttles = 1
  /\ art.throttleTime = options_.sleep

\* C23: the run is strictly sequential. Trials start in increasing (journal,
\* article, trial) order: every article navigated to so far is at or before
\* the current position, the current article has been navigated to only
\* once its own trials began, and the trials of an article are numbered
\* 0, 1, 2, ... with each one ended (failed) before the next starts, at most
\* one being in flight. A journal is entered only after all journals before
\* it finished, and only the journal in progress has a cursor file.
C23_StrictlySequential ==
  /\ \A a \in obs.navigated : a[1] < jdx \/ (a[1] = jdx /\ a[2] <= i)
  /\ <<jdx, i>> \in obs.navigated =>
       pc \in TrialPcs \cup {"throttle", "forInc"} /\ art.trials >= 1
  /\ pc = "trialCond" =>
       art.trials = trial /\ art.fails = trial /\ art.saves + art.nolinks = 0
  /\ pc \in {"goto", "findPdf", "fetch", "save"} =>
       art.trials = trial + 1 /\ art.fails = trial
  /\ pc \in {"catch", "retrySleep"} =>
       art.trials = trial + 1 /\ art.fails = trial + 1
  /\ \A j \in obs.entered : j <= jdx /\ \A k \in 1..(j - 1) : k \in obs.finished
  /\ \A w \in obs.written : w[1] <= jdx
  /\ \A j \in JIdx : cursorFile[j].exists => j = jdx

\* the second trial of the second article of the second journal is in flight
C23_Witness ==
  /\ pc = "goto"
  /\ jdx = 2
  /\ i = 1
  /\ trial = 1
  /\ <<1, 0>> \in obs.navigated
  /\ <<2, 0>> \in obs.navigated

\* the current scrape() call has come to its end
ScrapeEnded == scraper.pc = "idle" /\ scraper.calls >= 1

\* C24: Volume.scrape never rejects. Whichever step fails (launch, newPage,
\* goto, page.title, the 404 title, evaluate) the call resolves to metadata
\* with the error property; browser.close() has then been called exactly
\* once if the launch succeeded and not at all if it failed.
C24_VolumeScrapeNeverRejects ==
  scraper.kind = "Volume" =>
    /\ scraper.outcome # "rejected"
    /\ scraper.closes <= 1
    /\ ScrapeEnded =>
         /\ scraper.outcome = "resolved"
         /\ scraper.failed # "none" => "error" \in scraper.returned
         /\ scraper.closes = IF scraper.failed = "launch" THEN 0 ELSE 1

\* a Volume.scrape that met the 404 page has resolved, the browser closed
C24_Witness ==
  /\ scraper.kind = "Volume"
  /\ ScrapeEnded
  /\ scraper.failed = "notFound"
  /\ scraper.outcome = "resolved"
  /\ "error" \in scraper.returned
  /\ scraper.closes = 1

\* C25: when puppeteer.launch throws, Journal.scrape does not reject: it
\* resolves to metadata with the error property, and browser.close() is not
\* called.
C25_JournalLaunchFailure ==
  (scraper.kind = "Journal" /\ ScrapeEnded /\ scraper.failed = "launch") =>
    /\ scraper.outcome = "resolved"
    /\ "error" \in scraper.returned
    /\ scraper.closes = 0

\* C26: whatever scrape() calls were made before on a Volume or Journal
\* object, after a call that returned having succeeded the metadata has the
\* content fields (issues, or date and articles) and no error property, and
\* after a call that returned having failed it has the error property and
\* no content field.
C26_MetadataMatchesLastScrape ==
  (ScrapeEnded /\ scraper.outcome = "resolved") =>
    LET m == metadata(scraper)
        fields == IF scraper.kind = "Volume" THEN {"issues"}
                                             ELSE {"date", "articles"}
    IN IF scraper.failed = "none"
         THEN fields \subseteq m /\ "error" \notin m
         ELSE "error" \in m /\ fields \cap m = {}

\* C27: when logout_ has failed, exactly one error is logged for it, the
\* run goes on to the teardown (the failure does not leave download()), the
\* browser is closed exactly once and download() returns 1, even when every
\* article was saved.
C27_LogoutFailure ==
  obs.logoutErrors0 >= 0 =>
    /\ obs.logouts = 1
    /\ pc \in {"finally", "close", "return", "done"}
    /\ logger.error = obs.logoutErrors0 + 1
    /\ errorCount_ = logger.error
    /\ pc \in {"return", "done"} => browser = "closed" /\ obs.closes = 1
    /\ pc = "done" => status = 1

\* logout failed in a run in which every article of every journal was saved
\* and nothing else went wrong
C27_Witness ==
  /\ pc = "done"
  /\ obs.logoutErrors0 = 0
  /\ obs.finished = JIdx
  /\ \E j \in JIdx : journals[j] > 0
  /\ obs.failed = {}
  /\ logger.warn = 0
  /\ logger.error = 1
  /\ status = 1
  /\ browser = "closed"

\* C28: a journal with zero articles and no cursor file is processed without
\* an error being logged: its downloadJournal_ returns, and the run goes on
\* to the journals after it.
C28_EmptyJournalProcessed ==
  \A j \in JIdx :
    (/\ journals[j] = 0
     /\ j \in obs.started
     /\ ~obs.startFile[j].exists
     /\ (j < jdx \/ pc \in {"logout", "finally", "close", "return", "done"}))
    => /\ j \in obs.finished
       /\ obs.thrown = "none"
       /\ pc = "done" => \A k \in JIdx : k > j => k \in obs.entered

\* positions of downloadJournal_ after the cursor was read
AfterReadPcs ==
  TrialPcs \cup {"forCond", "writeCursor", "checkAbort", "throttle", "forInc",
                 "removeCursor"}

\* C30: for each journal the directory is created before the cursor is read,
\* and the cursor is read before any cursor write or article attempt of that
\* journal; when the directory creation failed, the cursor file of that
\* journal is neither read, written nor removed.
C30_DirectoryThenCursor ==
  /\ obs.started \subseteq obs.made
  /\ \A w \in obs.written : w[1] \in obs.started
  /\ \A a \in obs.navigated : a[1] \in obs.started
  /\ pc \in AfterReadPcs => jdx \in obs.started
  /\ obs.thrown = "mkdirp" =>
       /\ jdx \notin obs.made \cup obs.started \cup obs.finished
       /\ \A w \in obs.written : w[1] # jdx
       /\ \A a \in obs.navigated : a[1] # jdx

\* the directory of a journal could not be created in a process that found
\* the cursor file of an interrupted run there; the file is still in place
\* when download() has returned
C30_Witness ==
  /\ pc = "done"
  /\ obs.thrown = "mkdirp"
  /\ cursorFile[jdx].exists
  /\ obs.started # {}
  /\ obs.written # {}

\* C29: the counters are run-scoped: whichever download() call on a
\* Downloader has returned, its exit status is 1 exactly when an error was
\* logged during that call, so a call without an error after a call with
\* errors returns 0.
C29_StatusOfThisCall ==
  pc = "done" => (status = 1 <=> logger.error > obs.callErrors0)

\* C31: abort() only sets the abort flag and is idempotent. A step during
\* which download() does not advance is an abort() call: it leaves the flag
\* set, changes neither the counters, the logger, the cursor files nor any
\* other field or local, and when the flag was already set it changes
\* nothing at all. No step of the run clears the flag.
C31_Step ==
  /\ aborted_ => aborted_'
  /\ pc' = pc =>
       /\ aborted_'
       /\ UNCHANGED <<inVars, fsVars, cntVars, loopVars, browser, status,
                      obs>>
       /\ aborted_ => UNCHANGED vars

C31_AbortOnlySetsFlag == [][C31_Step]_vars

\* abort() was called during the fetch of an article: the flag is set, the
\* counters are zero and the cursor file written for the article is in place
C31_Witness ==
  /\ pc = "fetch"
  /\ aborted_
  /\ art.abortTrial = trial
  /\ warnCount_ = 0 /\ errorCount_ = 0
  /\ cursorFile[jdx] = writeCursor_(i)

\* C32: download() always terminates: whatever the batch, the retry count
\* and the failures of the collaborators, no article runs more than
\* 1 + retry trials and download() eventually returns a status.
C32_DownloadTerminates ==
  /\ [](art.trials <= MaxTrial(options_.retry))
  /\ <>(pc = "done" /\ status \in {0, 1})

\* download() has returned after an article used up all its trials with the
\* largest retry count
C32_Witness ==
  /\ pc = "done"
  /\ status = 1
  /\ options_.retry = MaxRetry
  /\ art.trials = 1 + MaxRetry
  /\ art.fails = art.trials
  /\ Len(journals) = MaxJournals

\* C33: the njtool download process ends with a non-zero exit status when
\* download() resolved to 1, and with 0 when it resolved to 0.
C33_ExitStatusIsDownloadStatus ==
  (pc = "done" /\ cli.exit # -1) => (cli.exit = 0 <=> status = 0)

\* C34: in the njtool download command, with the retry count R being the
\* default or the value given with --retry, an article whose every trial
\* fails is attempted exactly 1 + R times and logs exactly R warnings and
\* 1 error.
C34_RetryFromCommandLine ==
  (AllTrialsFailed /\ cli.exit = -1) =>
    /\ art.trials = 1 + options_.retry
    /\ art.warns = options_.retry
    /\ art.errors = 1

\* C35: in the njtool download command each of the first three SIGINTs only
\* calls downloader.abort(): it sets the flag and counts, and the run goes
\* on from where it was. The fourth SIGINT ends the process at once with
\* status 1, with no logout, no browser close and no cursor change, and a
\* process that has ended takes no further step.
C35_Step ==
  /\ cli'.abort_count = cli.abort_count + 1 =>
       /\ cli.abort_count < 3
       /\ aborted_'
       /\ cli'.exit = -1
       /\ UNCHANGED <<inVars, fsVars, cntVars, loopVars, pc, browser, status,
                      obs>>
  /\ (cli.exit = -1 /\ cli'.exit = 1) =>
       /\ cli.abort_count = 3
       /\ UNCHANGED <<dlVarsNoCli, scraper>>
  /\ cli.exit # -1 => UNCHANGED vars
  /\ cli.abort_count < 3 => cli'.exit # 1

C35_FourthSigintKills == [][C35_Step]_vars

\* the fourth SIGINT arrived while an article was being fetched: the process
\* has ended with status 1, the browser open, the cursor file in place and
\* no logout made
C35_Witness ==
  /\ cli.exit = 1
  /\ cli.abort_count = 3
  /\ pc = "fetch"
  /\ browser = "open"
  /\ obs.logouts = 0
  /\ cursorFile[jdx] = writeCursor_(i)

\* the decimal text of n, padded with the character pad to two characters
\* when n has a single digit
Padded(pad, n) == IF n < 10 THEN <<pad>> \o String(n) ELSE String(n)

\* C36: for every article position, the saved file name starts with the
\* decimal 1-based index zero-padded to two digits, followed by a space, the
\* sanitized title and ".pdf"; no other position of the journal gets the
\* same name for the same title.
C36_FileNameHasFullIndex ==
  progress.pdfFile # <<>> =>
    /\ \E sanitized \in Titles :
         progress.pdfFile =
           Padded("0", progress.count) \o <<" ">> \o sanitized \o <<".pdf">>
    /\ \A n \in 1..MaxCount : \A sanitized \in Titles :
         n # progress.count => pdfFile(n, sanitized) # progress.pdfFile

\* C37: the item part of the progress indicator holds the full decimal count
\* and total, each padded only when it has a single digit, for values of 100
\* and more as well.
C37_IndicatorNotTruncated ==
  progress.indicator # <<>> =>
    progress.indicator =
      Padded(" ", progress.count) \o <<"/">> \o Padded(" ", progress.total)
        \o <<":", " ">> \o String(progress.trial) \o <<"/">>
        \o String(progress.maxTrial)

\* C38: in the Downloader of lib/downloader.js, download() returns a
\* non-zero status when an error was logged during the run, and 0 only when
\* no error was logged.
C38_OldStatusIffErrorLogged ==
  pc = "done" => (status # 0 <=> logger.error > 0)

\* C39: for every id that the Volume or Journal constructor accepts, the id
\* getter of the object returns exactly that id.
C39_IdRoundTrip ==
  scraper.pc = "id" => scraper.id = scraper.arg

====
